---- MODULE Spec2Model ----
(***************************************************************************)
(* HTTPLocation (rekall_agent/locations/http.py): conditional cache        *)
(* materialization (get_local_filename), the optimistic read-modify-write  *)
(* loop (read_modify_write_local_file), upload_file_object, delete,        *)
(* read_file and _report_error, run by several threads that share one      *)
(* LocalCache and one server object at one URL.                            *)
(*                                                                         *)
(* Encodings: a generation is a positive integer, 0 stands for None (no    *)
(* generation / header absent).  A file content is a sequence of integers; *)
(* the callback of thread t appends t.  NoFile marks a path that does not  *)
(* exist.  A response status of 0 stands for a transport exception (a      *)
(* requests exception, which is an IOError).                               *)
(***************************************************************************)
EXTENDS Integers, Sequences, FiniteSets, TLC

\* ---------------------------------------------------------------- bounds
NumThreads == 2
MaxCalls == 3
MaxFaults == 1

\* range(5) of the retry loop
MaxAttempts == 5

Threads == 1..NumThreads
MaxGen == MaxCalls + 1
Gens == 1..MaxGen
None == 0
URLs == {"u", "v"}
NoFile == <<-1>>
UploadData == <<0>>

\* ---------------------------------------------------------------- paths
CachePath(url, gen) == <<url, gen>>
TmpPath(t) == <<"tmp", t>>
Paths == ({"u"} \X Gens) \cup {CachePath("v", 1)} \cup ({"tmp"} \X Threads)

VARIABLES
  server,      \* the remote object at URL "u": [exists, gen, content]
  cache,       \* LocalCache: URL -> recorded generation (None: no entry)
  files,       \* local filesystem: path -> content or NoFile
  pc,          \* per thread: position in the running call
  op,          \* per thread: the running call
  cr,          \* per thread: a completion_routine was supplied
  resp,        \* per thread: the HTTP response in hand
  glf,         \* per thread: get_local_filename's current_generation
  rmw,         \* per thread: read_modify_write_local_file's locals
  result,      \* per thread: how the call ended
  delivered,   \* per thread: Status values passed to completion_routine
  calls,       \* calls started so far, by all threads
  nfaults,     \* server/transport faults injected so far
  h,           \* per thread: history of the running call
  g,           \* global history
  nw,          \* policy issuance (New): its arguments and what it produced
  sess         \* the session's "requests_session" parameter and the
               \* threads running get_requests_session

vars == <<server, cache, files, pc, op, cr, resp, glf, rmw, result,
          delivered, calls, nfaults, h, g, nw, sess>>

\* the state of the HTTP operations
opvars == <<server, cache, files, pc, op, cr, resp, glf, rmw, result,
            delivered, calls, nfaults, h, g>>

\* ------------------------------------------------- HTTP status codes read
OK_STATUS == 200
NOT_MODIFIED == 304
NOT_FOUND == 404
SERVER_ERROR == 500
TRANSPORT_EXC == 0

\* requests.Response.ok (and bool(response)): raise_for_status() raises only
\* for 400 <= status_code < 600, so every status below 400 is ok, 304 included.
ResponseOk(status) == status < 400

NoResp == [status |-> -1, etag |-> None, body |-> NoFile]
NoStatus == [code |-> 0, message |-> "none"]

\* ------------------------------------------------------------ the server
\* GET <url> with optional If-None-Match (wire contract).
ServerGet(inm) ==
  IF ~server.exists
    THEN [status |-> NOT_FOUND, etag |-> None, body |-> NoFile]
  ELSE IF inm # None /\ inm = server.gen
    THEN [status |-> NOT_MODIFIED, etag |-> server.gen, body |-> NoFile]
  ELSE [status |-> OK_STATUS, etag |-> server.gen, body |-> server.content]

\* PUT <url> with optional If-Match: accepted unless the precondition fails.
ServerPutAccepts(ifm) == ifm = None \/ (server.exists /\ ifm = server.gen)

ServerAfterPut(data) ==
  [exists |-> TRUE, gen |-> server.gen + 1, content |-> data]

\* The precondition-conflict answer: status 304; whether it carries the ETag
\* of the current object is the server's choice.
ServerConflictResponses ==
  {[status |-> NOT_MODIFIED, etag |-> e, body |-> NoFile] :
     e \in {None} \cup (IF server.exists THEN {server.gen} ELSE {})}

\* Answers that are not the server's normal one: an error status, or the
\* transport raising.
FaultResponses ==
  IF nfaults < MaxFaults
    THEN {[status |-> s, etag |-> None, body |-> NoFile] :
            s \in {SERVER_ERROR, TRANSPORT_EXC}}
    ELSE {}

\* ------------------------------------------------------------- LocalCache
get_generation(url) == cache[url]

get_local_file(url, gen) == CachePath(url, gen)

cache_store_at_generation(url, gen) == [cache EXCEPT ![url] = gen]

files_store_at_generation(url, gen, body) ==
  [files EXCEPT ![CachePath(url, gen)] = body]

cache_expire(url) == [cache EXCEPT ![url] = None]

files_expire(url) ==
  IF cache[url] = None THEN files
  ELSE [files EXCEPT ![CachePath(url, cache[url])] = NoFile]

\* update_local_file_generation moves local_filename into the cache under the
\* new generation and replaces the entry.
files_update_local_file_generation(url, gen, local_filename) ==
  [p \in Paths |->
     IF p = CachePath(url, gen) THEN files[local_filename]
     ELSE IF p = local_filename THEN NoFile
     ELSE files[p]]

\* ------------------------------------------------------------------ Init
NoRmw == [local_filename |-> TmpPath(1), current_generation |-> None,
          local_file_should_be_removed |-> FALSE, if_match |-> None,
          retry |-> 0]

NoStored == [gen |-> None, path |-> <<"none", 0>>]

NoHist == [matStatus |-> -1, matGen |-> None, mats |-> 0, puts |-> 0,
           cbs |-> 0,
           conflicts |-> 0, sentIfMatch |-> None, putStatus |-> -1,
           scratch |-> FALSE, handed |-> FALSE, snap |-> NoStored,
           inm |-> None, fresh |-> FALSE, uploaded |-> NoFile,
           slept |-> <<>>]

NoNew == [args |-> <<>>, out |-> <<>>]

InitOps ==
  /\ server \in {[exists |-> FALSE, gen |-> 0, content |-> <<>>],
                 [exists |-> TRUE, gen |-> 1, content |-> <<>>]}
  /\ cache = [u \in URLs |-> IF u = "v" THEN 1 ELSE None]
  /\ files = [p \in Paths |-> IF p = CachePath("v", 1) THEN <<>> ELSE NoFile]
  /\ pc = [t \in Threads |-> "idle"]
  /\ op = [t \in Threads |-> "none"]
  /\ cr = [t \in Threads |-> FALSE]
  /\ resp = [t \in Threads |-> NoResp]
  /\ glf = [t \in Threads |-> None]
  /\ rmw = [t \in Threads |-> NoRmw]
  /\ result = [t \in Threads |-> [kind |-> "pending", val |-> <<"none">>]]
  /\ delivered = [t \in Threads |-> <<>>]
  /\ calls = 0
  /\ nfaults = 0
  /\ h = [t \in Threads |-> NoHist]
  /\ g = [stored |-> NoStored, onlyRmw |-> TRUE, onlyGlfRmw |-> TRUE,
          succ |-> [t \in Threads |-> 0]]

\* No transport made yet (the parameter reads None), no thread in
\* get_requests_session.
NoSess == [cached |-> None, created |-> 0,
           rs |-> [t \in Threads |-> None],
           at |-> [t \in Threads |-> "idle"],
           used |-> [t \in Threads |-> None],
           calls |-> 0]

Init ==
  /\ InitOps
  /\ nw = NoNew
  /\ sess = NoSess

\* ------------------------------------------------------------ call start
Url == "u"

Pending == [kind |-> "pending", val |-> <<"none">>]
Return(v) == [kind |-> "return", val |-> v]
Raise(e) == [kind |-> "raise", val |-> <<e>>]

CanStart(t) == pc[t] \in {"idle", "done"} /\ calls < MaxCalls

StartCall(t, o, c, first) ==
  /\ CanStart(t)
  /\ pc' = [pc EXCEPT ![t] = first]
  /\ op' = [op EXCEPT ![t] = o]
  /\ cr' = [cr EXCEPT ![t] = c]
  /\ resp' = [resp EXCEPT ![t] = NoResp]
  /\ glf' = [glf EXCEPT ![t] = None]
  /\ rmw' = [rmw EXCEPT ![t] = [NoRmw EXCEPT !.local_filename = TmpPath(t)]]
  /\ result' = [result EXCEPT ![t] = Pending]
  /\ delivered' = [delivered EXCEPT ![t] = <<>>]
  /\ calls' = calls + 1
  /\ h' = [h EXCEPT ![t] = NoHist]
  /\ g' = [g EXCEPT !.onlyRmw = @ /\ o = "rmw",
                    !.onlyGlfRmw = @ /\ o \in {"rmw", "glf"}]
  /\ UNCHANGED <<nw, sess>>
  /\ UNCHANGED <<server, cache, files, nfaults>>

\* read_modify_write_local_file, lines 296-299: headers built once, first
\* iteration of the loop.
call_read_modify_write_local_file(t) == StartCall(t, "rmw", FALSE, "glf_lookup")

call_get_local_filename(t) ==
  \E c \in BOOLEAN : StartCall(t, "glf", c, "glf_lookup")

call_upload_file_object(t) ==
  \E c \in BOOLEAN : StartCall(t, "upload", c, "upload")

call_delete(t) ==
  \E c \in BOOLEAN : StartCall(t, "delete", c, "delete")

call_read_file(t) == StartCall(t, "read", FALSE, "read_file")

\* --------------------------------------------------------- _report_error
\* bool(response) is response.ok, so the Status of a failed response is built
\* by the else branch of `if response:`.
ReportStatus(r) ==
  IF ResponseOk(r.status)
    THEN IF ~ResponseOk(r.status)
           THEN [code |-> r.status, message |-> "text"]
           ELSE [code |-> r.status, message |-> "none"]
    ELSE [code |-> SERVER_ERROR, message |-> "none"]

_report_error(c, r) ==
  IF ~ResponseOk(r.status)
    THEN IF c
           THEN [kind |-> "return", val |-> <<"cb_ret">>,
                 delivered |-> <<ReportStatus(r)>>]
           ELSE [kind |-> "raise", val |-> <<"IOError">>, delivered |-> <<>>]
    ELSE [kind |-> "return", val |-> <<"True">>,
          delivered |-> IF c THEN <<ReportStatus(r)>> ELSE <<>>]

\* ---------------------------------------------------- get_local_filename
\* Mutant: the conditional header is never attached.
IfNoneMatch_absent(current_generation) == None

IfNoneMatch(current_generation) ==
  IF current_generation # None THEN current_generation ELSE None

\* lines 253-257
glf_lookup(t) ==
  /\ pc[t] = "glf_lookup"
  /\ glf' = [glf EXCEPT ![t] = get_generation(Url)]
  /\ h' = [h EXCEPT ![t].snap = g.stored, ![t].matStatus = -1,
                    ![t].matGen = None, ![t].scratch = FALSE,
                    ![t].mats = @ + 1]
  /\ pc' = [pc EXCEPT ![t] = "glf_get"]
  /\ UNCHANGED <<nw, sess>>
  /\ UNCHANGED <<server, cache, files, op, cr, resp, rmw, result, delivered,
                 calls, nfaults, g>>

\* lines 259-262: the GET and the server's answer
glf_get(t) ==
  /\ pc[t] = "glf_get"
  /\ \E r \in {ServerGet(IfNoneMatch(glf[t]))} \cup FaultResponses :
       /\ resp' = [resp EXCEPT ![t] = r]
       /\ nfaults' = IF r \in FaultResponses THEN nfaults + 1 ELSE nfaults
  /\ h' = [h EXCEPT ![t].inm = IfNoneMatch(glf[t]),
                    ![t].fresh = server.exists]
  /\ pc' = [pc EXCEPT ![t] = "glf_resp"]
  /\ UNCHANGED <<nw, sess>>
  /\ UNCHANGED <<server, cache, files, op, cr, glf, rmw, result, delivered,
                 calls, g>>

\* lines 264-284: what the call returns or raises
get_local_filename_result(c, gen, r) ==
  IF r.status = TRANSPORT_EXC
    THEN [kind |-> "raise", val |-> <<"RequestException">>, delivered |-> <<>>]
  ELSE IF r.status = NOT_MODIFIED
    THEN [kind |-> "return", val |-> get_local_file(Url, gen),
          delivered |-> <<>>]
  ELSE IF ~ResponseOk(r.status)
    THEN _report_error(c, r)
  ELSE [kind |-> "return", val |-> CachePath(Url, r.etag),
        delivered |-> _report_error(c, r).delivered]

\* Mutant: a 404 leaves the cache entry in place.
get_local_filename_cache_keeps(r) ==
  IF r.status = TRANSPORT_EXC \/ r.status = NOT_MODIFIED THEN cache
  ELSE IF ~ResponseOk(r.status) THEN cache
  ELSE cache_store_at_generation(Url, r.etag)

\* Mutant: every failure status expires the entry.
get_local_filename_cache_expires_all(r) ==
  IF r.status = TRANSPORT_EXC \/ r.status = NOT_MODIFIED THEN cache
  ELSE IF ~ResponseOk(r.status) THEN cache_expire(Url)
  ELSE cache_store_at_generation(Url, r.etag)

\* lines 268-279: what the call does to the cache
get_local_filename_cache(r) ==
  IF r.status = TRANSPORT_EXC \/ r.status = NOT_MODIFIED THEN cache
  ELSE IF ~ResponseOk(r.status)
    THEN IF r.status = NOT_FOUND THEN cache_expire(Url) ELSE cache
  ELSE cache_store_at_generation(Url, r.etag)

get_local_filename_files(r) ==
  IF r.status = TRANSPORT_EXC \/ r.status = NOT_MODIFIED THEN files
  ELSE IF ~ResponseOk(r.status)
    THEN IF r.status = NOT_FOUND THEN files_expire(Url) ELSE files
  ELSE files_store_at_generation(Url, r.etag, r.body)

\* History kept for the cache-hit property: g.stored is what the last storing
\* get_local_filename returned, while nothing wrote to the server or changed
\* the cache since the GET it stored; h[t].snap is g.stored as the running
\* get_local_filename found it.  A cache change clears them, a server write
\* also clears the mark of a GET answer still in flight.
ClearSnap(hh) == [x \in Threads |-> [hh[x] EXCEPT !.snap = NoStored]]

ClearAll(hh) ==
  [x \in Threads |-> [hh[x] EXCEPT !.snap = NoStored, !.fresh = FALSE]]

\* The generation of the content a materialization produced (None: none).
MaterializedGen(gen, r) ==
  IF r.status = NOT_MODIFIED THEN gen
  ELSE IF r.status = OK_STATUS THEN r.etag
  ELSE None

\* lines 264-284, and for read_modify_write_local_file lines 302-312: the
\* except IOError branch makes the scratch file.
glf_resp(t) ==
  /\ pc[t] = "glf_resp"
  /\ LET r == resp[t]
         out == get_local_filename_result(cr[t], glf[t], r)
         cache2 == get_local_filename_cache(r)
         files2 == get_local_filename_files(r)
         changed == cache2 # cache \/ files2 # files
         caught == op[t] = "rmw" /\ out.kind = "raise"
         h1 == IF changed THEN ClearSnap(h) ELSE h
     IN
       /\ cache' = cache2
       /\ files' = IF caught THEN [files2 EXCEPT ![TmpPath(t)] = <<>>]
                   ELSE files2
       /\ delivered' = [delivered EXCEPT ![t] = @ \o out.delivered]
       /\ h' = [h1 EXCEPT ![t].matStatus = r.status,
                          ![t].matGen = MaterializedGen(glf[t], r),
                          ![t].scratch = caught]
       /\ g' = [g EXCEPT !.stored =
                  IF r.status = OK_STATUS /\ h[t].fresh
                    THEN [gen |-> r.etag, path |-> out.val]
                  ELSE IF changed THEN NoStored ELSE @]
       /\ IF op[t] = "glf"
            THEN /\ pc' = [pc EXCEPT ![t] = "done"]
                 /\ result' = [result EXCEPT ![t] =
                                 [kind |-> out.kind, val |-> out.val]]
                 /\ rmw' = rmw
          ELSE IF out.kind = "return"
            THEN /\ pc' = [pc EXCEPT ![t] = "rmw_gen"]
                 /\ rmw' = [rmw EXCEPT ![t].local_filename = out.val]
                 /\ result' = result
          ELSE /\ pc' = [pc EXCEPT ![t] = "rmw_cb"]
               /\ rmw' = [rmw EXCEPT ![t].local_filename = TmpPath(t),
                                     ![t].local_file_should_be_removed = TRUE]
               /\ result' = result
  /\ UNCHANGED <<nw, sess>>
  /\ UNCHANGED <<server, op, cr, resp, glf, calls, nfaults>>

\* -------------------------------------------- read_modify_write_local_file
\* line 305
rmw_gen(t) ==
  /\ pc[t] = "rmw_gen"
  /\ rmw' = [rmw EXCEPT ![t].current_generation = get_generation(Url)]
  /\ pc' = [pc EXCEPT ![t] = "rmw_cb"]
  /\ UNCHANGED <<nw, sess>>
  /\ UNCHANGED <<server, cache, files, op, cr, resp, glf, result, delivered,
                 calls, nfaults, h, g>>

\* Mutant: the finally clause forgets the scratch file.
finally_unlink_leaks(local_file_should_be_removed, local_filename, fs) == fs

\* lines 344-346
finally_unlink(local_file_should_be_removed, local_filename, fs) ==
  IF local_file_should_be_removed
    THEN [fs EXCEPT ![local_filename] = NoFile]
    ELSE fs

\* An exception leaves the loop body through the finally clause.
RmwRaise(t, e) ==
  /\ files' = finally_unlink(rmw[t].local_file_should_be_removed,
                             rmw[t].local_filename, files)
  /\ pc' = [pc EXCEPT ![t] = "done"]
  /\ result' = [result EXCEPT ![t] = Raise(e)]

\* lines 318-319: the headers dict is the one built at line 296
if_match_header(current_generation, if_match) ==
  IF current_generation # None THEN current_generation ELSE if_match

\* lines 315-319; modification_cb is read_modify_write's cb (lines 362-370),
\* which opens the file, and the caller's transformation may raise.
rmw_cb(t) ==
  /\ pc[t] = "rmw_cb"
  /\ LET f == rmw[t].local_filename IN
       \E raises \in BOOLEAN :
         IF files[f] = NoFile
           THEN /\ RmwRaise(t, "IOError")
                /\ UNCHANGED <<rmw, h>>
         ELSE IF raises
           THEN /\ RmwRaise(t, "CallbackError")
                /\ rmw' = rmw
                /\ h' = [h EXCEPT ![t].cbs = @ + 1]
         ELSE /\ files' = [files EXCEPT ![f] = Append(@, t)]
              /\ rmw' = [rmw EXCEPT ![t].if_match =
                           if_match_header(rmw[t].current_generation, @)]
              /\ h' = [h EXCEPT ![t].cbs = @ + 1]
              /\ pc' = [pc EXCEPT ![t] = "rmw_put"]
              /\ result' = result
  /\ UNCHANGED <<nw, sess>>
  /\ UNCHANGED <<server, cache, op, cr, resp, glf, delivered, calls, nfaults,
                 g>>

\* lines 321-323: open(local_filename), the PUT and the server's answer
rmw_put(t) ==
  /\ pc[t] = "rmw_put"
  /\ LET f == rmw[t].local_filename
         ifm == rmw[t].if_match
     IN
       IF files[f] = NoFile
         THEN /\ RmwRaise(t, "IOError")
              /\ UNCHANGED <<server, resp, nfaults, h, g>>
       ELSE
         /\ \/ /\ ServerPutAccepts(ifm)
               /\ server' = ServerAfterPut(files[f])
               /\ resp' = [resp EXCEPT ![t] =
                             [status |-> OK_STATUS, etag |-> server.gen + 1,
                              body |-> NoFile]]
               /\ h' = [ClearAll(h) EXCEPT ![t].puts = @ + 1,
                                            ![t].sentIfMatch = ifm,
                                      ![t].uploaded = files[f],
                                            ![t].putStatus = OK_STATUS]
               /\ g' = [g EXCEPT !.stored = NoStored]
               /\ nfaults' = nfaults
            \/ /\ ~ServerPutAccepts(ifm)
               /\ \E r \in ServerConflictResponses :
                    resp' = [resp EXCEPT ![t] = r]
               /\ h' = [h EXCEPT ![t].puts = @ + 1,
                                 ![t].sentIfMatch = ifm,
                                      ![t].uploaded = files[f],
                                 ![t].conflicts = @ + 1,
                                 ![t].putStatus = NOT_MODIFIED]
               /\ UNCHANGED <<server, g, nfaults>>
            \/ /\ \E r \in FaultResponses :
                    /\ resp' = [resp EXCEPT ![t] = r]
                    /\ h' = [h EXCEPT ![t].puts = @ + 1,
                                      ![t].sentIfMatch = ifm,
                                      ![t].uploaded = files[f],
                                      ![t].putStatus = r.status]
               /\ nfaults' = nfaults + 1
               /\ UNCHANGED <<server, g>>
         /\ pc' = [pc EXCEPT ![t] = "rmw_resp"]
         /\ UNCHANGED <<files, result>>
  /\ UNCHANGED <<nw, sess>>
  /\ UNCHANGED <<cache, op, cr, glf, rmw, delivered, calls>>

\* Mutant: every failed answer is taken as a conflict.
rmw_branch_retries_errors(r) ==
  IF r.status = TRANSPORT_EXC THEN "exception"
  ELSE IF ResponseOk(r.status) THEN "ok"
  ELSE "retry"

\* lines 326-348: which branch the PUT response takes
rmw_branch(r) ==
  IF r.status = TRANSPORT_EXC THEN "exception"
  ELSE IF ResponseOk(r.status) THEN "ok"
  ELSE IF r.status = NOT_MODIFIED THEN "retry"
  ELSE "fail"

\* Mutant: the conflict test comes first and the loop runs once more.
rmw_next_one_more(r, retry) ==
  IF r.status = NOT_MODIFIED
    THEN IF retry < MaxAttempts THEN "again" ELSE "exhausted"
    ELSE rmw_branch(r)

\* lines 297 and 340-342: `continue` starts the next iteration of
\* `for retry in range(5)` if there is one
rmw_next(r, retry) ==
  IF rmw_branch(r) = "retry"
    THEN IF retry + 1 < MaxAttempts THEN "again" ELSE "exhausted"
    ELSE rmw_branch(r)

\* lines 326-348; h[t].slept lists the arguments of time.sleep (line 341) in
\* units of 0.1 s
rmw_resp(t) ==
  /\ pc[t] = "rmw_resp"
  /\ LET r == resp[t]
         f == rmw[t].local_filename
         b == rmw_next(r, rmw[t].retry)
     IN
       IF b = "exception"
         THEN /\ RmwRaise(t, "RequestException")
              /\ UNCHANGED <<cache, rmw, h, g>>
       ELSE IF b = "ok"
         THEN IF r.etag = None
                THEN /\ RmwRaise(t, "KeyError")
                     /\ UNCHANGED <<cache, rmw, h, g>>
              ELSE IF files[f] = NoFile
                THEN /\ RmwRaise(t, "OSError")
                     /\ UNCHANGED <<cache, rmw, h, g>>
              ELSE /\ cache' = cache_store_at_generation(Url, r.etag)
                   /\ files' = files_update_local_file_generation(
                                 Url, r.etag, f)
                   /\ rmw' = [rmw EXCEPT
                                ![t].local_file_should_be_removed = FALSE]
                   /\ h' = [ClearSnap(h) EXCEPT ![t].handed = TRUE]
                   /\ g' = [g EXCEPT !.stored = NoStored,
                                     !.succ[t] = @ + 1]
                   /\ pc' = [pc EXCEPT ![t] = "done"]
                   /\ result' = [result EXCEPT ![t] = Return(<<"True">>)]
       ELSE IF b \in {"again", "exhausted"}
         THEN /\ files' = finally_unlink(rmw[t].local_file_should_be_removed,
                                         f, files)
              /\ IF b = "again"
                   THEN /\ rmw' = [rmw EXCEPT
                                     ![t].retry = @ + 1,
                                     ![t].local_file_should_be_removed = FALSE,
                                     ![t].current_generation = None]
                        /\ pc' = [pc EXCEPT ![t] = "glf_lookup"]
                        /\ result' = result
                   ELSE /\ rmw' = rmw
                        /\ pc' = [pc EXCEPT ![t] = "done"]
                        /\ result' = [result EXCEPT ![t] = Return(<<"None">>)]
              /\ h' = [h EXCEPT ![t].slept = Append(@, rmw[t].retry)]
              /\ UNCHANGED <<cache, g>>
       ELSE /\ RmwRaise(t, "IOError")
            /\ UNCHANGED <<cache, rmw, h, g>>
  /\ UNCHANGED <<nw, sess>>
  /\ UNCHANGED <<server, op, cr, resp, glf, delivered, calls, nfaults>>

\* ------------------------------------------- upload_file_object and delete
\* How a call that ends in _report_error(completion_routine, resp) ends.
ReportedResult(c, r) ==
  IF r.status = TRANSPORT_EXC
    THEN [kind |-> "raise", val |-> <<"RequestException">>, delivered |-> <<>>]
    ELSE _report_error(c, r)

EndReported(t, r) ==
  /\ resp' = [resp EXCEPT ![t] = r]
  /\ result' = [result EXCEPT ![t] =
                  [kind |-> ReportedResult(cr[t], r).kind,
                   val |-> ReportedResult(cr[t], r).val]]
  /\ delivered' = [delivered EXCEPT ![t] = @ \o ReportedResult(cr[t], r).delivered]
  /\ pc' = [pc EXCEPT ![t] = "done"]

\* lines 197-207: an unconditional PUT
upload_file_object(t) ==
  /\ pc[t] = "upload"
  /\ \/ /\ server' = ServerAfterPut(UploadData)
        /\ EndReported(t, [status |-> OK_STATUS, etag |-> server.gen + 1,
                           body |-> NoFile])
        /\ h' = ClearAll(h)
        /\ g' = [g EXCEPT !.stored = NoStored]
        /\ nfaults' = nfaults
     \/ /\ \E r \in FaultResponses : EndReported(t, r)
        /\ nfaults' = nfaults + 1
        /\ UNCHANGED <<server, h, g>>
  /\ UNCHANGED <<nw, sess>>
  /\ UNCHANGED <<cache, files, op, cr, glf, rmw, calls>>

\* lines 243-249: GET with action=delete
delete(t) ==
  /\ pc[t] = "delete"
  /\ \/ /\ server.exists
        /\ server' = [server EXCEPT !.exists = FALSE]
        /\ EndReported(t, [status |-> OK_STATUS, etag |-> None,
                           body |-> NoFile])
        /\ h' = ClearAll(h)
        /\ g' = [g EXCEPT !.stored = NoStored]
        /\ nfaults' = nfaults
     \/ /\ ~server.exists
        /\ EndReported(t, [status |-> NOT_FOUND, etag |-> None,
                           body |-> NoFile])
        /\ UNCHANGED <<server, h, g, nfaults>>
     \/ /\ \E r \in FaultResponses : EndReported(t, r)
        /\ nfaults' = nfaults + 1
        /\ UNCHANGED <<server, h, g>>
  /\ UNCHANGED <<nw, sess>>
  /\ UNCHANGED <<cache, files, op, cr, glf, rmw, calls>>

\* ---------------------------------------------------------------- read_file
\* Mutant: the body is returned whatever the status.
read_file_result_leaks(r) == <<"data", r.body>>

\* lines 189-192
read_file_result(r) ==
  IF ResponseOk(r.status) THEN <<"data", r.body>> ELSE <<"data", <<>>>>

\* lines 183-192: an unconditional GET
read_file(t) ==
  /\ pc[t] = "read_file"
  /\ \E r \in {ServerGet(None)} \cup FaultResponses :
       /\ resp' = [resp EXCEPT ![t] = r]
       /\ nfaults' = IF r \in FaultResponses THEN nfaults + 1 ELSE nfaults
       /\ result' = [result EXCEPT ![t] =
                       IF r.status = TRANSPORT_EXC
                         THEN Raise("RequestException")
                         ELSE Return(read_file_result(r))]
  /\ pc' = [pc EXCEPT ![t] = "done"]
  /\ UNCHANGED <<nw, sess>>
  /\ UNCHANGED <<server, cache, files, op, cr, glf, rmw, delivered, calls,
                 h, g>>

\* ------------------------------------------------------------------ Next
Next ==
  \E t \in Threads :
    \/ call_read_modify_write_local_file(t)
    \/ call_get_local_filename(t)
    \/ call_upload_file_object(t)
    \/ call_delete(t)
    \/ call_read_file(t)
    \/ glf_lookup(t)
    \/ glf_get(t)
    \/ glf_resp(t)
    \/ rmw_gen(t)
    \/ rmw_cb(t)
    \/ rmw_put(t)
    \/ rmw_resp(t)
    \/ upload_file_object(t)
    \/ delete(t)
    \/ read_file(t)

Spec == Init /\ [][Next]_vars

\* A started call keeps running: every request returns and the thread is
\* scheduled again.
Step(t) ==
  \/ glf_lookup(t) \/ glf_get(t) \/ glf_resp(t)
  \/ rmw_gen(t) \/ rmw_cb(t) \/ rmw_put(t) \/ rmw_resp(t)
  \/ upload_file_object(t) \/ delete(t) \/ read_file(t)

FairSpec == Spec /\ \A t \in Threads : WF_vars(Step(t))

\* ------------------------------------------------------------ New (policy)
\* Strings are sequences of characters.  An argument left out is None; for
\* methods, whose values are sequences, it is written Omitted.
MaxPrefixLen == 2

Chars == {"/", "a"}
Strings(n) == UNION {[1..k -> Chars] : k \in 0..n}
Omitted == <<"omitted">>
BaseUrl == <<"b">>
NoLocation == [base |-> <<>>, path_prefix |-> <<>>, policy |-> <<>>,
               path_template |-> <<>>, signature |-> <<>>]

NewArgs ==
  [path_prefix : Strings(MaxPrefixLen),
   methods : {Omitted, <<>>, <<"GET">>, <<"PUT", "GET">>, <<"POST">>},
   expiration : {None, 1, 2},
   path_template : {<<"/">>, <<"/", "a">>},
   public : BOOLEAN,
   now : {10},
   signer_ok : BOOLEAN]

\* line 97
Week == 60 * 60 * 24 * 7

\* Mutant: the prefix is taken as given.
anchored_absent(path_prefix) == path_prefix

\* lines 104-105
anchored(path_prefix) ==
  IF Len(path_prefix) > 0 /\ path_prefix[1] = "/"
    THEN path_prefix
    ELSE <<"/">> \o path_prefix

\* URLPolicy.from_keywords, lines 108-114
URLPolicy_from_keywords(path_prefix, path_template, expires, public, methods) ==
  [path_prefix |-> path_prefix, path_template |-> path_template,
   expires |-> expires, public |-> public, methods |-> methods]

\* The deterministic serialization of a policy and its inverse.
to_json(policy) ==
  <<policy.path_prefix, policy.path_template, policy.expires, policy.public,
    policy.methods>>

from_json(data) ==
  [path_prefix |-> data[1], path_template |-> data[2], expires |-> data[3],
   public |-> data[4], methods |-> data[5]]

\* config.server.private_key.sign
private_key_sign(data) == <<"sig", data>>

\* lines 96-125; `signed` is what the signer was handed
HTTPLocation_New(a) ==
  LET expiration == IF a.expiration = None THEN a.now + Week
                    ELSE a.expiration
      methods == IF a.methods = Omitted THEN <<"GET", "PUT">> ELSE a.methods
      path_prefix == anchored(a.path_prefix)
      policy == URLPolicy_from_keywords(path_prefix, a.path_template,
                                        expiration, a.public, methods)
      policy_data == to_json(policy)
  IN
    IF ~a.signer_ok
      THEN [kind |-> "raise", signed |-> policy_data, location |-> NoLocation]
      ELSE [kind |-> "return", signed |-> policy_data,
            location |-> [base |-> BaseUrl, path_prefix |-> path_prefix,
                          policy |-> policy_data,
                          path_template |-> a.path_template,
                          signature |-> private_key_sign(policy_data)]]

InitNew ==
  /\ InitOps
  /\ nw \in [args : NewArgs, out : {<<>>}]
  /\ sess = NoSess

New ==
  /\ nw.out = <<>>
  /\ nw' = [nw EXCEPT !.out = HTTPLocation_New(nw.args)]
  /\ UNCHANGED <<opvars, sess>>

NextNew == New

SpecNew == InitNew /\ [][NextNew]_vars

\* ---------------------------------------------------- get_requests_session
\* Transports (requests.Session objects with their mounted pooled adapters)
\* are numbered in the order they are made.  Threads run the steps of
\* get_requests_session one at a time; sess.used[t] is the transport the
\* thread's latest request went through.
call_get_requests_session(t) ==
  /\ sess.at[t] = "idle"
  /\ sess.calls < MaxCalls
  /\ sess' = [sess EXCEPT !.at[t] = "read", !.rs[t] = None,
                          !.calls = @ + 1]
  /\ UNCHANGED <<opvars, nw>>

\* lines 138-139
grs_read(t) ==
  /\ sess.at[t] = "read"
  /\ sess' = [sess EXCEPT !.rs[t] = sess.cached,
                          !.at[t] = IF sess.cached = None THEN "create"
                                    ELSE "return"]
  /\ UNCHANGED <<opvars, nw>>

\* lines 144-151
grs_create(t) ==
  /\ sess.at[t] = "create"
  /\ sess' = [sess EXCEPT !.created = @ + 1, !.rs[t] = sess.created + 1,
                          !.at[t] = "set"]
  /\ UNCHANGED <<opvars, nw>>

\* line 153
grs_set(t) ==
  /\ sess.at[t] = "set"
  /\ sess' = [sess EXCEPT !.cached = sess.rs[t], !.at[t] = "return"]
  /\ UNCHANGED <<opvars, nw>>

\* line 155, and the caller's .get / .put on what was returned
grs_return(t) ==
  /\ sess.at[t] = "return"
  /\ sess' = [sess EXCEPT !.used[t] = sess.rs[t], !.at[t] = "idle"]
  /\ UNCHANGED <<opvars, nw>>

NextSession ==
  \E t \in Threads :
    \/ call_get_requests_session(t)
    \/ grs_read(t)
    \/ grs_create(t)
    \/ grs_set(t)
    \/ grs_return(t)

SpecSession == Init /\ [][NextSession]_vars

\* =================================================================
\* Properties
\* =================================================================
Idle(t) == pc[t] \in {"idle", "done"}
AllDone == \A t \in Threads : Idle(t)
Count(seq, x) == Cardinality({i \in DOMAIN seq : seq[i] = x})
Leaving(t, at) == pc[t] = at /\ pc'[t] # at

\* C1: when only read_modify_write_local_file calls ran and the server and
\* transport never failed, the final server content is the successful calls'
\* transformations applied in some order: thread t's token occurs once per
\* call of t that returned True, and nothing else occurs.
C1_SerialOutcome ==
  (AllDone /\ g.onlyRmw /\ nfaults = 0) =>
    \A t \in Threads : Count(server.content, t) = g.succ[t]

\* C2: the PUT of an attempt carries If-Match exactly when the attempt's
\* materialization found an object, and then the generation of the content
\* the callback was applied to.
C2_IfMatchIsMaterializedGeneration ==
  \A t \in Threads :
    pc[t] = "rmw_resp" => h[t].sentIfMatch = h[t].matGen

\* C3: a call that ends on a precondition-conflict answer has made exactly
\* MaxAttempts callback invocations and PUTs and ends by raising IOError.
C3_ConflictExhaustsThenRaises ==
  \A t \in Threads :
    (pc[t] = "done" /\ op[t] = "rmw" /\ h[t].puts > 0
       /\ h[t].conflicts = h[t].puts
       /\ result[t] # Raise("CallbackError"))
    => (h[t].puts = MaxAttempts /\ h[t].cbs = MaxAttempts
          /\ result[t] = Raise("IOError"))

\* C4: an attempt works on an empty scratch file only when its
\* materialization was answered not-found; after any other failure of the
\* materialization (error status, transport error) the call has ended by
\* raising, without a PUT.
C4_ScratchOnlyOnNotFound ==
  \A t \in Threads :
    /\ (op[t] = "rmw" /\ h[t].scratch) => h[t].matStatus = NOT_FOUND
    /\ (op[t] = "rmw" /\ h[t].matStatus \in {SERVER_ERROR, TRANSPORT_EXC})
         => (pc[t] = "done" /\ result[t].kind = "raise" /\ h[t].puts = 0)

\* C5: the upload step changes the recorded generation only after a PUT
\* answered with success (200), and then to that answer's ETag.
C5_UploadStepCommitsOnlyOnSuccess ==
  [][\A t \in Threads :
       (Leaving(t, "rmw_resp") /\ cache' # cache)
       => (resp[t].status = OK_STATUS /\ cache'[Url] = resp[t].etag)]_vars

\* C6: while only get_local_filename and read_modify_write_local_file calls
\* run and neither the server nor the transport fails, the recorded generation of the URL is never replaced by an older one
\* (the server's generations are numbered in the order it issued them).
C6_GenerationNeverRegresses ==
  [][(g.onlyGlfRmw /\ nfaults = 0 /\ cache[Url] # None /\ cache'[Url] # None)
       => cache'[Url] >= cache[Url]]_vars

\* C7: outside the callback/upload part of an attempt no scratch file of the
\* thread exists; a scratch file exists only while its attempt still has to
\* remove it; and a file handed to the cache stays in the cache, under the
\* generation it was handed over with, as long as that entry is the recorded
\* one.
C7_ScratchRemovedUnlessHandedOver ==
  \A t \in Threads :
    /\ pc[t] \notin {"rmw_cb", "rmw_put", "rmw_resp"}
         => files[TmpPath(t)] = NoFile
    /\ files[TmpPath(t)] # NoFile
         => (rmw[t].local_file_should_be_removed
               /\ rmw[t].local_filename = TmpPath(t))
    /\ (pc[t] = "done" /\ h[t].handed /\ cache[Url] = resp[t].etag)
         => files[CachePath(Url, resp[t].etag)] # NoFile

C7_Witness ==
  \E t \in Threads :
    /\ pc[t] = "done" /\ op[t] = "rmw" /\ h[t].scratch
    /\ result[t] = Raise("CallbackError")
    /\ files[TmpPath(t)] = NoFile

\* C8: get_local_filename, answered 404, leaves no cache entry for the URL
\* and ends in an error (IOError raised, or a failure Status handed to the
\* completion routine), never in the cached local path.
C8_NotFoundExpiresAndReports ==
  [][\A t \in Threads :
       (Leaving(t, "glf_resp") /\ resp[t].status = NOT_FOUND)
       => /\ cache'[Url] = None
          /\ op[t] = "glf" =>
               /\ result'[t].val # get_local_file(Url, glf[t])
               /\ IF cr[t]
                    THEN /\ result'[t] = Return(<<"cb_ret">>)
                         /\ Len(delivered'[t]) = 1
                         /\ ~ResponseOk(delivered'[t][1].code)
                    ELSE result'[t] = Raise("IOError")
          /\ op[t] = "rmw" => h'[t].scratch]_vars

C8_Witness ==
  \E t \in Threads :
    /\ pc[t] = "done" /\ op[t] = "glf" /\ glf[t] # None
    /\ h[t].matStatus = NOT_FOUND
    /\ cache[Url] = None
    /\ result[t] = Raise("IOError")

\* C9: a get_local_filename that starts after a storing get_local_filename,
\* with no server write and no cache change since, sent If-None-Match with
\* the stored generation, is answered 304, returns the path the storing call
\* returned, and changes neither the cache nor any file.
C9_CacheHit ==
  [][\A t \in Threads :
       (Leaving(t, "glf_resp") /\ h[t].snap # NoStored
          /\ resp[t].status \notin {SERVER_ERROR, TRANSPORT_EXC})
       => /\ h[t].inm = h[t].snap.gen
          /\ resp[t].status = NOT_MODIFIED
          /\ cache' = cache /\ files' = files
          /\ op[t] = "glf" => result'[t] = Return(h[t].snap.path)
          /\ op[t] = "rmw" => rmw'[t].local_filename = h[t].snap.path]_vars

C9_Witness ==
  \E t \in Threads :
    /\ pc[t] = "done" /\ op[t] = "glf" /\ h[t].snap # NoStored
    /\ h[t].matStatus = NOT_MODIFIED
    /\ result[t] = Return(h[t].snap.path)

\* C10: a call given a completion routine that got an HTTP answer has handed
\* exactly one Status to the routine and has not raised.
C10_OutcomeDeliveredToCallback ==
  \A t \in Threads :
    (pc[t] = "done" /\ cr[t] /\ resp[t].status # TRANSPORT_EXC)
    => (Len(delivered[t]) = 1 /\ result[t].kind = "return")

\* C11: a call that ended in _report_error with an HTTP answer: for a failed
\* answer the Status built has the answer's status code and its body text,
\* and goes to the completion routine if there is one (nothing raised),
\* otherwise IOError is raised; for a successful answer the Status has the
\* answer's code and no message, goes to the completion routine if there is
\* one, and the call returns.
C11_ReportErrorStatus ==
  \A t \in Threads :
    (pc[t] = "done" /\ op[t] \in {"glf", "upload", "delete"}
       /\ resp[t].status \notin {TRANSPORT_EXC, NOT_MODIFIED})
    => IF ~ResponseOk(resp[t].status)
         THEN IF cr[t]
                THEN /\ delivered[t] = <<[code |-> resp[t].status,
                                          message |-> "text"]>>
                     /\ result[t].kind = "return"
                ELSE /\ delivered[t] = <<>>
                     /\ result[t] = Raise("IOError")
         ELSE /\ delivered[t] = IF cr[t]
                                  THEN <<[code |-> resp[t].status,
                                          message |-> "none"]>>
                                  ELSE <<>>
              /\ result[t].kind = "return"

\* C12: read_file returns the body of a successful GET and an empty result
\* for every failure status; it raises for no HTTP status, hands nothing to
\* a completion routine and leaves the cache and its files as they were.
C12_ReadFile ==
  [][\A t \in Threads :
       Leaving(t, "read_file")
       => /\ cache' = cache /\ files' = files
          /\ delivered'[t] = <<>>
          /\ resp'[t].status # TRANSPORT_EXC => result'[t].kind = "return"
          /\ resp'[t].status = OK_STATUS
               => result'[t] = Return(<<"data", server.content>>)
          /\ ~ResponseOk(resp'[t].status)
               => result'[t] = Return(<<"data", <<>>>>)]_vars

C12_Witness ==
  \E t \in Threads :
    /\ pc[t] = "done" /\ op[t] = "read"
    /\ resp[t].status = NOT_FOUND
    /\ result[t] = Return(<<"data", <<>>>>)
    /\ cache[Url] # None

\* C13: New, once it has run: if the signer failed no Location was produced;
\* otherwise the Location's path_prefix starts with "/", is the given prefix
\* (with "/" put in front when it did not start with one) and is the
\* path_prefix inside the issued policy; its policy field is the serialized
\* policy the signer was handed and its signature is the signer's output over
\* those bytes; and with methods left out the policy grants GET and PUT only.
C13_NewIssuesSignedPolicy ==
  nw.out # <<>> =>
    LET a == nw.args
        loc == nw.out.location
    IN
      IF ~a.signer_ok
        THEN nw.out.kind = "raise" /\ loc = NoLocation
        ELSE /\ nw.out.kind = "return"
             /\ Len(loc.path_prefix) > 0 /\ loc.path_prefix[1] = "/"
             /\ loc.path_prefix \in {a.path_prefix, <<"/">> \o a.path_prefix}
             /\ loc.path_prefix = from_json(loc.policy).path_prefix
             /\ loc.policy = nw.out.signed
             /\ loc.signature = private_key_sign(nw.out.signed)
             /\ a.methods = Omitted =>
                  {from_json(loc.policy).methods[i] :
                     i \in DOMAIN from_json(loc.policy).methods}
                    = {"GET", "PUT"}

C13_Witness ==
  /\ nw.out # <<>>
  /\ nw.args.signer_ok
  /\ nw.args.path_prefix = <<"a">>
  /\ nw.args.methods = Omitted
  /\ nw.out.location.path_prefix = <<"/", "a">>

\* C14: read_modify_write_local_file returns True only when the PUT of its
\* attempt was answered with success (200); at that moment the cache records
\* the generation of that answer's ETag and holds, under it, the content
\* that was uploaded; and the callback ran once in that attempt.
C14_SuccessMeansCommitted ==
  [][\A t \in Threads :
       (Leaving(t, "rmw_resp") /\ result'[t] = Return(<<"True">>))
       => /\ resp[t].status = OK_STATUS
          /\ cache'[Url] = resp[t].etag
          /\ files'[CachePath(Url, resp[t].etag)] = h[t].uploaded
          /\ h[t].cbs = rmw[t].retry + 1]_vars

\* C15: a call of read_modify_write_local_file makes at most MaxAttempts
\* materializations, callback invocations and PUTs, its loop index stays
\* below MaxAttempts, and the call ends.
C15_Bounded ==
  \A t \in Threads :
    op[t] = "rmw" =>
      /\ h[t].mats <= MaxAttempts
      /\ h[t].cbs <= MaxAttempts
      /\ h[t].puts <= MaxAttempts
      /\ rmw[t].retry < MaxAttempts

C16_ErrorStatusEndsCall ==
  [][\A t \in Threads :
       (Leaving(t, "rmw_resp") /\ ~ResponseOk(resp[t].status)
          /\ resp[t].status # NOT_MODIFIED)
       => /\ pc'[t] = "done"
          /\ result'[t] = Raise("IOError")
          /\ cache' = cache
          /\ h'[t].mats = h[t].mats /\ h'[t].cbs = h[t].cbs
          /\ h'[t].puts = h[t].puts
          /\ files'[TmpPath(t)] = NoFile]_vars

C16_Witness ==
  \E t \in Threads :
    /\ pc[t] = "done" /\ op[t] = "rmw"
    /\ h[t].puts = 1 /\ h[t].putStatus = SERVER_ERROR
    /\ resp[t].status = SERVER_ERROR
    /\ result[t] = Raise("IOError")
    /\ cache[Url] = h[t].matGen /\ cache[Url] # None

\* C17: a PUT refused with the conflict status on the attempt with index i
\* is followed by a sleep of i tenths of a second and, when attempts are
\* left, by a new materialization; no sleep follows any other answer.
C17_ConflictSleepsThenRestarts ==
  [][\A t \in Threads :
       Leaving(t, "rmw_resp")
       => IF h[t].putStatus = NOT_MODIFIED
            THEN /\ h'[t].slept = Append(h[t].slept, rmw[t].retry)
                 /\ rmw[t].retry + 1 < MaxAttempts
                      => (pc'[t] = "glf_lookup"
                            /\ rmw'[t].retry = rmw[t].retry + 1)
            ELSE h'[t].slept = h[t].slept]_vars

\* C18: get_local_filename, when it has its answer: a 404 leaves no entry
\* for the URL and removes the entry's file; a 200 records the ETag's
\* generation and stores the body under it; any other answer (304, another
\* failure status, a transport error) leaves the entry and every cache file
\* as they were; the entries and files of other URLs are never changed.
C18_CacheFrame ==
  [][\A t \in Threads :
       Leaving(t, "glf_resp")
       => LET r == resp[t]
              Others(keep) == \A p \in ({Url} \X Gens) \ keep :
                                files'[p] = files[p]
          IN
            /\ cache'["v"] = cache["v"]
            /\ files'[CachePath("v", 1)] = files[CachePath("v", 1)]
            /\ IF r.status = NOT_FOUND
                 THEN /\ cache'[Url] = None
                      /\ cache[Url] # None
                           => files'[CachePath(Url, cache[Url])] = NoFile
                      /\ Others(IF cache[Url] = None THEN {}
                                ELSE {CachePath(Url, cache[Url])})
               ELSE IF r.status = OK_STATUS
                 THEN /\ cache'[Url] = r.etag
                      /\ files'[CachePath(Url, r.etag)] = r.body
                      /\ Others({CachePath(Url, r.etag)})
               ELSE /\ cache' = cache
                    /\ Others({})]_vars

C18_Witness ==
  \E t \in Threads :
    /\ pc[t] = "done" /\ op[t] = "glf"
    /\ resp[t].status = SERVER_ERROR
    /\ glf[t] # None /\ cache[Url] = glf[t]
    /\ files[CachePath(Url, glf[t])] # NoFile

\* C19: when no call is running and the cache records for the URL the
\* generation the server currently holds, the cached local file has the
\* server's content of that generation.
C19_CachedContentIsServerContent ==
  (AllDone /\ server.exists /\ cache[Url] = server.gen
     /\ files[CachePath(Url, cache[Url])] # NoFile)
  => files[CachePath(Url, cache[Url])] = server.content

\* C20: at most one transport is ever made for the session, and all the
\* threads' requests go through the same transport.
C20_OneSharedTransport ==
  /\ sess.created <= 1
  /\ \A t1, t2 \in Threads :
       (sess.used[t1] # None /\ sess.used[t2] # None)
       => sess.used[t1] = sess.used[t2]

====
